---- MODULE Spec2Model ----
(***************************************************************************)
(* Label / barcode pipeline of the inventory application                   *)
(* (inventory/barcode_utils.py) and the HTTP views that drive it           *)
(* (inventory/views.py).                                                   *)
(*                                                                         *)
(* Conventions                                                             *)
(*   - Python strings are TLA+ strings; None and "" are both falsy and are *)
(*     both written "" where the code only tests truthiness.               *)
(*   - A Python object is a record with a field attrs, the set of the      *)
(*     attribute names for which hasattr() is true.                        *)
(*   - Lengths in mm are integers in tenths of a millimetre; a module      *)
(*     width is an integer in units of 1/10000 mm; barcode_area_ratio is   *)
(*     an integer percentage.  int(x) of the code is integer division.     *)
(***************************************************************************)
EXTENDS Integers, Sequences, FiniteSets, TLC

(***************************************************************************)
(* Bounds of the model                                                     *)
(***************************************************************************)
MaxId == 1

(***************************************************************************)
(* Strings                                                                 *)
(***************************************************************************)
UpperChars == <<"A","B","C","D","E","F","G","H","I","J","K","L","M",
                "N","O","P","Q","R","S","T","U","V","W","X","Y","Z">>
LowerChars == <<"a","b","c","d","e","f","g","h","i","j","k","l","m",
                "n","o","p","q","r","s","t","u","v","w","x","y","z">>

\* str.lower() on one character
LowerChar(c) ==
  IF \E i \in 1..26 : UpperChars[i] = c
  THEN LowerChars[CHOOSE i \in 1..26 : UpperChars[i] = c]
  ELSE c

RECURSIVE LowerFrom(_, _)
\* the characters of s from position i on, each in lower case
LowerFrom(s, i) ==
  IF i > Len(s) THEN ""
  ELSE LowerChar(SubSeq(s, i, i)) \o LowerFrom(s, i + 1)

\* str.lower(), character by character
Lower(s) == LowerFrom(s, 1)

\* f"INV-{item.id}"
InvCode(id) == "INV-" \o ToString(id)

(***************************************************************************)
(* Items handed to the label service (duck-typed: "InventoryItem or        *)
(* similar").                                                              *)
(***************************************************************************)
IdNone == -1            \* item.id is None (an unsaved model instance)

NoneProduct ==
  [none |-> TRUE, attrs |-> {}, name |-> "", upc |-> "", gtin |-> "", barcode |-> ""]

Products ==
  { [none |-> FALSE,
     attrs |-> {"name"} \cup (IF u[1] THEN {"upc"} ELSE {})
                        \cup (IF g[1] THEN {"gtin"} ELSE {})
                        \cup (IF b[1] THEN {"barcode"} ELSE {}),
     name |-> n, upc |-> u[2], gtin |-> g[2], barcode |-> b[2]] :
       n \in {"", "PLA"},
       u \in {<<FALSE, "">>, <<TRUE, "">>, <<TRUE, "0123">>},
       g \in {<<FALSE, "">>, <<TRUE, "4006">>},
       b \in {<<FALSE, "">>, <<TRUE, "B1">>} }

\* item = None / a falsy item
NoItem ==
  [none |-> TRUE, attrs |-> {}, id |-> IdNone, inventory_code |-> "",
   code |-> "", name |-> "", product |-> NoneProduct]

Items ==
  { [none |-> FALSE,
     attrs |-> (IF i[1] THEN {"id"} ELSE {})
          \cup (IF ic[1] THEN {"inventory_code"} ELSE {})
          \cup (IF c[1] THEN {"code"} ELSE {})
          \cup (IF nm[1] THEN {"name"} ELSE {})
          \cup (IF p[1] THEN {"product"} ELSE {}),
     id |-> i[2], inventory_code |-> ic[2], code |-> c[2], name |-> nm[2],
     product |-> p[2]] :
       i \in {<<FALSE, IdNone>>, <<TRUE, IdNone>>} \cup {<<TRUE, k>> : k \in 1..MaxId},
       ic \in {<<FALSE, "">>, <<TRUE, "">>, <<TRUE, "BIN-1">>},
       c \in {<<FALSE, "">>, <<TRUE, "C-9">>},
       nm \in {<<FALSE, "">>, <<TRUE, "Spool">>},
       p \in {<<FALSE, NoneProduct>>, <<TRUE, NoneProduct>>}
             \cup {<<TRUE, q>> : q \in Products} }

\* An item as the views load it: a saved InventoryItem row (id set, product
\* set with the upc and name columns, no inventory_code/code/name fields).
StoredItems ==
  { it \in Items : /\ it.attrs = {"id", "product"}
                   /\ it.id # IdNone
                   /\ ~it.product.none
                   /\ it.product.attrs = {"name", "upc"} }

ModeInputs ==
  {"upc", "unique", "UPC", "Unique", "Upc", "inv", "inventory", "INV", "qr", ""}

\* str(item)
ItemStr(item) == "<item>"

\* getattr(obj, attr) for the string attributes of a product
ProductAttr(p, attr) ==
  CASE attr = "upc" -> p.upc
    [] attr = "gtin" -> p.gtin
    [] attr = "barcode" -> p.barcode
    [] attr = "name" -> p.name

RECURSIVE FirstPresent(_, _)
\* the loop without its truthiness test: the first attribute that exists
FirstPresent(p, names) ==
  IF names = <<>> THEN ""
  ELSE IF Head(names) \in p.attrs
       THEN ProductAttr(p, Head(names))
       ELSE FirstPresent(p, Tail(names))

RECURSIVE FirstTruthy(_, _)
\* the loop of _get_upc_for_item over its attribute names
FirstTruthy(p, names) ==
  IF names = <<>> THEN ""
  ELSE IF Head(names) \in p.attrs /\ ProductAttr(p, Head(names)) # ""
       THEN ProductAttr(p, Head(names))
       ELSE FirstTruthy(p, Tail(names))

\* _get_upc_for_item: "" stands for the None it returns
_get_upc_for_item(item) ==
  IF "product" \notin item.attrs THEN ""          \* AttributeError, continue
  ELSE FirstTruthy(item.product, <<"upc", "gtin", "barcode">>)

\* _get_unique_code_for_item: the code and whether the warning was logged
_get_unique_code_for_item(item) ==
  IF "inventory_code" \in item.attrs /\ item.inventory_code # ""
  THEN [code |-> item.inventory_code, warned |-> FALSE]
  ELSE IF "code" \in item.attrs /\ item.code # ""
  THEN [code |-> item.code, warned |-> FALSE]
  ELSE IF "id" \in item.attrs /\ item.id # IdNone
  THEN [code |-> InvCode(item.id), warned |-> FALSE]
  ELSE [code |-> "INV-UNKNOWN", warned |-> TRUE]

\* _get_item_display_name
_get_item_display_name(item) ==
  IF /\ "product" \in item.attrs
     /\ ~item.product.none
     /\ "name" \in item.product.attrs
     /\ item.product.name # ""
  THEN item.product.name
  ELSE IF "name" \in item.attrs /\ item.name # ""
  THEN item.name
  ELSE ItemStr(item)

(***************************************************************************)
(* Label profiles and geometry                                             *)
(***************************************************************************)
DEFAULT_DPI == 300
DEFAULT_LABEL_WIDTH_MM == 540          \* 54.0 mm
DEFAULT_LABEL_HEIGHT_MM == 170         \* 17.0 mm

\* the vendor's pixel sizes, label code -> (width_px, height_px)
BROTHER_LABEL_PIXEL_SIZES == [c \in {"17x54"} |-> <<566, 165>>]

\* the dataclass constructor
LabelProfile(code, width_mm, height_mm, dpi, barcode_area_ratio, side_margin_mm) ==
  [code |-> code, width_mm |-> width_mm, height_mm |-> height_mm, dpi |-> dpi,
   barcode_area_ratio |-> barcode_area_ratio, side_margin_mm |-> side_margin_mm]

\* int(mm / 25.4 * dpi), mm in tenths of a millimetre
MmToPx(mm, dpi) == (mm * dpi) \div 254

\* a canvas size that is always computed from the millimetres
canvas_size_px_from_mm(profile) ==
  <<MmToPx(profile.width_mm, profile.dpi), MmToPx(profile.height_mm, profile.dpi)>>

canvas_size_px(profile) ==
  IF profile.code \in DOMAIN BROTHER_LABEL_PIXEL_SIZES
  THEN BROTHER_LABEL_PIXEL_SIZES[profile.code]
  ELSE <<MmToPx(profile.width_mm, profile.dpi), MmToPx(profile.height_mm, profile.dpi)>>

side_margin_px(profile) == MmToPx(profile.side_margin_mm, profile.dpi)

DEFAULT_PROFILE ==
  LabelProfile("17x54", DEFAULT_LABEL_WIDTH_MM, DEFAULT_LABEL_HEIGHT_MM, DEFAULT_DPI, 70, 20)

\* Python's round() of the fraction n/d (n >= 0, d > 0): to the nearest
\* integer, a tie to the even one
Round(n, d) ==
  LET q == n \div d
      r == n % d
  IN IF 2 * r < d THEN q
     ELSE IF 2 * r > d THEN q + 1
     ELSE IF q % 2 = 0 THEN q ELSE q + 1

\* a profile whose code is made from the height and the width, in this order
_profile_from_mm_width_first(label_size_mm, dpi, barcode_area_ratio, side_margin_mm) ==
  LabelProfile(ToString(Round(label_size_mm[1], 10)) \o "x"
                 \o ToString(Round(label_size_mm[2], 10)),
               label_size_mm[1], label_size_mm[2],
               IF dpi = 0 THEN DEFAULT_DPI ELSE dpi,
               barcode_area_ratio, side_margin_mm)

\* _profile_from_mm((width_mm, height_mm), dpi, ...); dpi = 0 stands for a
\* dpi that is None (or 0): "dpi or DEFAULT_DPI"
_profile_from_mm(label_size_mm, dpi, barcode_area_ratio, side_margin_mm) ==
  LabelProfile(ToString(Round(label_size_mm[2], 10)) \o "x"
                 \o ToString(Round(label_size_mm[1], 10)),
               label_size_mm[1], label_size_mm[2],
               IF dpi = 0 THEN DEFAULT_DPI ELSE dpi,
               barcode_area_ratio, side_margin_mm)

\* Profiles a caller may pass: the default, other label sizes (codes that
\* are not in the pixel table), and the extremes of barcode_area_ratio and
\* side_margin_mm.
ProfileInputs ==
  { DEFAULT_PROFILE,
    LabelProfile("17x54", 540, 170, 300, 0, 20),
    LabelProfile("17x54", 540, 170, 300, 100, 20),
    LabelProfile("17x54", 540, 170, 300, 70, 300),
    LabelProfile("29x90", 900, 290, 300, 70, 20),
    LabelProfile("29x90", 900, 290, 600, 50, 0),
    LabelProfile("17x20", 200, 170, 300, 70, 20),
    LabelProfile("1x1", 10, 10, 300, 70, 20) }

(***************************************************************************)
(* Barcode rendering.  The Code 128 encoder and its image writer are the   *)
(* python-barcode library: one 11-module symbol per character plus the     *)
(* start and check symbols and the 13-module stop pattern; the image is    *)
(* 2*quiet_zone + modules*module_width wide and 2.0 mm + module_height     *)
(* high, converted to pixels with int(mm * dpi / 25.4).                    *)
(***************************************************************************)
\* A character the Code 128 character set does not contain is written "#"
\* in the data strings of this model.
IllegalChar == "#"

\* every character of data is in the Code 128 character set
Encodable(data) == \A i \in 1..Len(data) : SubSeq(data, i, i) # IllegalChar

Modules(data) == 11 * (Len(data) + 2) + 13

QuietZone == 20000                     \* quiet_zone_mm = 2.0, in 1/10000 mm

Raise(kind) == [ok |-> FALSE, err |-> kind, w |-> 0, h |-> 0]
Img(w, h) == [ok |-> TRUE, err |-> "", w |-> w, h |-> h]

\* a renderer that takes the empty string as well
_render_code128_unchecked(data, module_width_mm, module_height_px, dpi) ==
  IF ~Encodable(data) THEN Raise("IllegalCharacter")
  ELSE Img(((2 * QuietZone + Modules(data) * module_width_mm) * dpi) \div 254000,
           module_height_px + (20 * dpi) \div 254)

_render_code128(data, module_width_mm, module_height_px, dpi) ==
  IF data = "" THEN Raise("InvalidInput")
  ELSE IF ~Encodable(data) THEN Raise("IllegalCharacter")
  ELSE Img(((2 * QuietZone + Modules(data) * module_width_mm) * dpi) \div 254000,
           module_height_px + (20 * dpi) \div 254)

InitialModuleWidth == 3000             \* initial_module_width_mm = 0.3
MinModuleWidth == 1000                 \* min_module_width_mm = 0.1

\* "module_width *= 0.9"
shrink_module_width(module_width) == (module_width * 9) \div 10

RECURSIVE ModuleWidthAfter(_)
\* module_width after k passes of the loop body: k times "module_width *= 0.9"
ModuleWidthAfter(k) ==
  IF k = 0 THEN InitialModuleWidth
  ELSE shrink_module_width(ModuleWidthAfter(k - 1))

\* the barcode as rendered after k passes of the loop body
RenderAfter(data, k, target_height_px, dpi) ==
  _render_code128(data, ModuleWidthAfter(k), target_height_px, dpi)

RECURSIVE ShrinkLoop(_, _, _, _, _)
\* the while loop of generate_barcode_to_fit, entered for the k-th time:
\* the number of passes (re-renders) after which it stops
ShrinkLoop(data, k, max_width_px, target_height_px, dpi) ==
  IF /\ RenderAfter(data, k, target_height_px, dpi).w > max_width_px
     /\ ModuleWidthAfter(k) > MinModuleWidth
  THEN ShrinkLoop(data, k + 1, max_width_px, target_height_px, dpi)
  ELSE k

\* a downscale that keeps the width
FitHeightOnly(img, target_height_px) ==
  IF img.h > target_height_px THEN Img(img.w, target_height_px) ELSE img

\* the final downscale of generate_barcode_to_fit, lines 220-224: to the
\* target height, the width by the same factor (int(width * scale), computed
\* here in exact arithmetic)
FitHeight(img, target_height_px) ==
  IF img.h > target_height_px
  THEN Img((img.w * target_height_px) \div img.h, target_height_px)
  ELSE img

\* a check of the two sizes that lets 0 pass
invalid_sizes_below_zero(max_width_px, target_height_px) ==
  max_width_px < 0 \/ target_height_px < 0

\* line 198: "max_width_px <= 0 or target_height_px <= 0"
invalid_sizes(max_width_px, target_height_px) ==
  max_width_px <= 0 \/ target_height_px <= 0

\* (The one-element sets bind a value that is computed once.)
generate_barcode_to_fit(data, max_width_px, target_height_px, dpi) ==
  IF invalid_sizes(max_width_px, target_height_px) THEN Raise("InvalidDimensions")
  ELSE IF ~RenderAfter(data, 0, target_height_px, dpi).ok
  THEN RenderAfter(data, 0, target_height_px, dpi)
  ELSE CHOOSE fitted \in
         { FitHeight(img, target_height_px) :
             img \in { RenderAfter(data, k, target_height_px, dpi) :
                         k \in {ShrinkLoop(data, 0, max_width_px, target_height_px, dpi)} } } :
         TRUE

(***************************************************************************)
(* Label layout                                                            *)
(***************************************************************************)
\* Optional[str]: None is <<>>, a string s is <<s>>
NoText == <<>>

\* What the file system offers _get_default_font: the configured
\* BARCODE_FONT_PATH ("unset", "bad" = cannot be loaded, "ok") and whether
\* one of the candidate system fonts can be loaded.
FontEnvs == [path : {"unset", "bad", "ok"}, system : BOOLEAN]

\* a font lookup without the final bitmap fallback
_get_default_font_no_fallback(env) ==
  IF env.path = "ok" THEN [ok |-> TRUE, font |-> "configured", warned |-> FALSE]
  ELSE IF env.system THEN [ok |-> TRUE, font |-> "system", warned |-> env.path = "bad"]
  ELSE [ok |-> FALSE, font |-> "", warned |-> TRUE]

\* _get_default_font: the font it returns and whether a warning was logged
_get_default_font(env) ==
  IF env.path = "ok" THEN [ok |-> TRUE, font |-> "configured", warned |-> FALSE]
  ELSE IF env.system THEN [ok |-> TRUE, font |-> "system", warned |-> env.path = "bad"]
  ELSE [ok |-> TRUE, font |-> "default", warned |-> TRUE]

Max(a, b) == IF a >= b THEN a ELSE b
Min(a, b) == IF a <= b THEN a ELSE b

\* a paste that widens the canvas to hold the whole barcode
PasteGrowing(canvas_width, canvas_height, barcode, x, y) ==
  [w |-> Max(canvas_width, barcode.w), h |-> Max(canvas_height, barcode.h),
   x0 |-> Max(0, x), x1 |-> Max(0, x) + barcode.w]

\* Image.paste(barcode, (x, y)) on a canvas: the canvas keeps its size, the
\* pasted image is clipped to it; x0..x1 are the canvas columns it covers.
Paste(canvas_width, canvas_height, barcode, x, y) ==
  [w |-> canvas_width, h |-> canvas_height,
   x0 |-> Max(0, x), x1 |-> Min(canvas_width, x + barcode.w)]

LabelRaise(kind) ==
  [ok |-> FALSE, err |-> kind, w |-> 0, h |-> 0,
   barcode_w |-> 0, barcode_h |-> 0, barcode_x |-> 0, barcode_y |-> 0,
   x0 |-> 0, x1 |-> 0,
   caption |-> NoText, caption_x |-> 0, caption_y |-> 0, font |-> ""]

\* a caption that stays empty when none is given
no_default_caption(data, text) == IF text = NoText THEN "" ELSE text[1]

\* lines 272-273: "if text is None: text = data"
default_caption(data, text) == IF text = NoText THEN data ELSE text[1]

\* a barcode pasted at the left edge of the canvas
left_x(canvas_width, barcode_width) == 0

\* line 267: barcode_x = (canvas_width - barcode_img.width) // 2
centered_x(canvas_width, barcode_width) == (canvas_width - barcode_width) \div 2

\* a caption drawn wherever its top comes to lie
caption_always_fits(text_y_top, canvas_height) == TRUE

\* line 280: if text_y_top < canvas_height
caption_fits(text_y_top, canvas_height) == text_y_top < canvas_height

\* line 255: barcode_height_px = int(canvas_height * profile.barcode_area_ratio)
barcode_height_px(profile) ==
  (canvas_size_px(profile)[2] * profile.barcode_area_ratio) \div 100

\* line 256: max_barcode_width_px = canvas_width - 2 * profile.side_margin_px
max_barcode_width_px(profile) ==
  canvas_size_px(profile)[1] - 2 * side_margin_px(profile)

\* create_label_image from line 266 on, the fitted barcode being barcode_img
LayoutLabel(data, text, profile, fontEnv, barcode_img) ==
  LET canvas_width == canvas_size_px(profile)[1]
      canvas_height == canvas_size_px(profile)[2]
      barcode_x == centered_x(canvas_width, barcode_img.w)
      barcode_y == 0
      label_img == Paste(canvas_width, canvas_height, barcode_img, barcode_x, barcode_y)
      caption == default_caption(data, text)
      font == _get_default_font(fontEnv)
      text_y_top == barcode_y + barcode_img.h + 2
      drawn == caption # "" /\ font.ok /\ caption_fits(text_y_top, canvas_height)
  IN IF ~barcode_img.ok THEN LabelRaise(barcode_img.err)
     ELSE IF caption # "" /\ ~font.ok THEN LabelRaise("FontLoadFailure")
     ELSE [ok |-> TRUE, err |-> "", w |-> label_img.w, h |-> label_img.h,
           barcode_w |-> barcode_img.w, barcode_h |-> barcode_img.h,
           barcode_x |-> barcode_x, barcode_y |-> barcode_y,
           x0 |-> label_img.x0, x1 |-> label_img.x1,
           caption |-> IF drawn THEN <<caption>> ELSE NoText,
           caption_x |-> IF drawn THEN canvas_width \div 2 ELSE 0,
           caption_y |-> IF drawn THEN text_y_top ELSE 0,
           font |-> IF drawn THEN font.font ELSE ""]

create_label_image(data, text, profile, fontEnv) ==
  CHOOSE label \in
    { LayoutLabel(data, text, profile, fontEnv, barcode_img) :
        barcode_img \in { generate_barcode_to_fit(data, max_barcode_width_px(profile),
                                                  barcode_height_px(profile),
                                                  profile.dpi) } } :
    TRUE

(***************************************************************************)
(* generate_and_print_barcode: resolving the identifier                    *)
(***************************************************************************)
ResolveRaise(kind) == [ok |-> FALSE, err |-> kind, data |-> "", text |-> NoText, warned |-> FALSE]

\* the first if/elif of generate_and_print_barcode (the exact mode strings)
PreCheck(item, mode) ==
  IF item.none THEN "NoItemProvided"
  ELSE IF /\ mode = "upc"
          /\ \/ "product" \notin item.attrs
             \/ item.product.none
             \/ "upc" \notin item.product.attrs
  THEN "NoProductOrUpc"
  ELSE IF mode = "unique" /\ "id" \notin item.attrs
  THEN "ItemHasNoId"
  ELSE ""

\* a unique branch that also takes the empty mode
UniqueModesWithEmpty == {"unique", "inv", "inventory", ""}

\* the lower-cased modes the unique branch accepts
UniqueModes == {"unique", "inv", "inventory"}

\* generate_and_print_barcode up to its call of generate_and_print_label
ResolveBarcode(item, mode) ==
  LET pre == PreCheck(item, mode)
      mode_lower == Lower(mode)
      item_name == _get_item_display_name(item)
      upc == _get_upc_for_item(item)
      unique_code == _get_unique_code_for_item(item)
  IN IF pre # "" THEN ResolveRaise(pre)
     ELSE IF mode_lower = "upc"
     THEN IF upc = "" THEN ResolveRaise("NoUpcAvailable")
          ELSE [ok |-> TRUE, err |-> "", data |-> upc,
                text |-> <<item_name \o " | " \o upc>>, warned |-> FALSE]
     ELSE IF mode_lower \in UniqueModes
     THEN [ok |-> TRUE, err |-> "", data |-> unique_code.code,
           text |-> <<unique_code.code>>, warned |-> unique_code.warned]
     ELSE ResolveRaise("UnknownMode")

(***************************************************************************)
(* Printing                                                                *)
(***************************************************************************)
\* print_label_image, label is None and BROTHER_QL_LABEL is not set in the
\* environment: the label code handed to convert()
DefaultLabelCode == DEFAULT_PROFILE.code

\* brother_ql convert(): rejects an unknown label code and an image whose
\* size is not the label's pixel size
ConvertAccepts(image, label) ==
  /\ label \in DOMAIN BROTHER_LABEL_PIXEL_SIZES
  /\ <<image.w, image.h>> = BROTHER_LABEL_PIXEL_SIZES[label]

\* what backend.write() can do: succeed, or fail on the network
TransmitOutcomes == {"ok", "PrinterUnreachable", "PrinterProtocolError"}

PrinterFaults == {"PrintFormatError", "PrinterUnreachable", "PrinterProtocolError"}

(***************************************************************************)
(* InventoryItem.save, as far as the views of this model need it: a new    *)
(* record has previous = None, and previous.location is then evaluated.    *)
(***************************************************************************)
save_outcome(is_new) == IF is_new THEN "AttributeError" ELSE "saved"

(***************************************************************************)
(* The inventory models: statuses, locations, filament_drying_warning      *)
(***************************************************************************)
\* InventoryItem.Status (IntegerChoices)
Status == [NEW |-> 1, IN_USE |-> 2, DRYING |-> 3, STORED |-> 4, DEPLETED |-> 5, SOLD |-> 6]

\* [choice[0] for choice in self.Status.choices]
StatusValues == {Status.NEW, Status.IN_USE, Status.DRYING, Status.STORED,
                 Status.DEPLETED, Status.SOLD}

\* Python values of two types and their ==: an int never equals a str
PyInt(n) == [type |-> "int", int |-> n, str |-> ""]
PyStr(t) == [type |-> "str", int |-> 0, str |-> t]
PyEq(a, b) == a = b

\* location = None
NoLocation == [name |-> "", default_status |-> 0, is_printer |-> FALSE]

\* Location rows: name, default_status (its choices are not enforced by the
\* database: 9 is no status), is_printer
Locations ==
  { [name |-> "Dry Storage", default_status |-> Status.STORED, is_printer |-> FALSE],
    [name |-> "X1C", default_status |-> Status.IN_USE, is_printer |-> TRUE],
    [name |-> "Bin", default_status |-> Status.DEPLETED, is_printer |-> FALSE],
    [name |-> "Odd", default_status |-> 9, is_printer |-> FALSE] }

\* the result tuple (type, message, skip_allowed) without its message; None
\* is <<>>
NoWarning == <<>>

\* what filament_drying_warning reads of the item: isinstance(self.product,
\* Filament), self.status (the integer of the status field) and
\* self.product.filament.material.drying_required
WarningSubjects ==
  [is_filament : BOOLEAN, status : StatusValues, drying_required : BOOLEAN]

NoSubject == [is_filament |-> FALSE, status |-> 0, drying_required |-> FALSE]

\* line 589: self.status == "NEW"
status_is_new(status) == PyEq(PyInt(status), PyStr("NEW"))

\* InventoryItem.filament_drying_warning(new_location)
filament_drying_warning(self, new_location) ==
  IF ~self.is_filament THEN NoWarning
  ELSE IF status_is_new(self.status)
  THEN IF Lower(new_location.name) = "dry storage" /\ self.drying_required
       THEN <<"error", FALSE>>
       ELSE IF new_location.is_printer /\ self.drying_required
       THEN <<"warning", TRUE>>
       ELSE IF new_location.is_printer /\ ~self.drying_required
       THEN <<"info", FALSE>>
       ELSE NoWarning
  ELSE NoWarning

\* Location rows and None
OptionalLocations == Locations \cup {NoLocation}

\* primary keys of the inventory_item table; pk = None
ItemIds == {"i1", "i2"}
NoPk == ""

\* InventoryItem(product=..., location=location): the field defaults.  A date
\* is TRUE when it is set.
NewInstance(location) ==
  [pk |-> NoPk, status |-> Status.NEW, location |-> location, in_use |-> FALSE,
   depleted |-> FALSE, date_depleted |-> FALSE, sold |-> FALSE, date_sold |-> FALSE]

\* no row under a primary key
NoRow == NewInstance(NoLocation)

\* InventoryItem.mark_depleted
mark_depleted(self) ==
  [self EXCEPT !.depleted = TRUE, !.date_depleted = TRUE,
               !.location = NoLocation, !.status = Status.DEPLETED]

\* InventoryItem.mark_sold
mark_sold(self) ==
  [self EXCEPT !.sold = TRUE, !.date_sold = TRUE,
               !.location = NoLocation, !.status = Status.SOLD]

\* save, lines 633-643: the flags that follow the status
save_flags(self) ==
  LET a == IF self.status = Status.IN_USE THEN [self EXCEPT !.in_use = TRUE] ELSE self
      b == IF a.status = Status.DEPLETED THEN mark_depleted(a) ELSE a
  IN  IF b.status = Status.SOLD THEN mark_sold(b) ELSE b

\* update_status, lines 541-544: the location is set and its default_status
\* is one of the choices
update_status_applies(self) ==
  /\ self.location # NoLocation
  /\ self.location.default_status \in StatusValues

\* sys.getrecursionlimit(), scaled down: the depth of nested save() calls
\* at which Python raises RecursionError
RecursionLimit == 3

\* rows that earlier saves left in the table
StoredRows ==
  { [NewInstance(NoLocation) EXCEPT !.pk = "i1"],
    [NewInstance(CHOOSE l \in Locations : l.name = "Dry Storage")
       EXCEPT !.pk = "i1", !.status = Status.STORED],
    [NewInstance(CHOOSE l \in Locations : l.name = "X1C")
       EXCEPT !.pk = "i1", !.status = Status.IN_USE, !.in_use = TRUE] }

\* no save() is in progress
DbIdle ==
  [pc |-> "idle", self |-> NoRow, is_new |-> FALSE, previous |-> NoRow,
   target |-> NoLocation, depth |-> 0, update_fields |-> "all", exc |-> ""]

\* the table with the row first
Table(first) == [rows |-> [id \in ItemIds |-> IF id = first.pk THEN first ELSE NoRow],
                 call |-> DbIdle]

DbStart == Table([NewInstance(NoLocation) EXCEPT !.pk = "i1"])

\* the request handlers that print at the same time
Workers == {"w1", "w2"}

\* what convert() returns for a label, in the pieces the socket sends
Instructions == <<"initialize", "raster", "print">>

\* no print request is in progress, nothing is on its way to the printer
NetIdle ==
  [req |-> [w \in Workers |-> [pc |-> "idle", sent |-> 0]], wire |-> <<>>]

(***************************************************************************)
(* State                                                                   *)
(***************************************************************************)
VARIABLES
  printEnabled,    \* settings.ENABLE_BARCODE_PRINTING
  pc,              \* position of the label call in progress
  entry,           \* who made the call: "barcode", "label", "get", "post", "add"
  hx,              \* the POST carries the HX-Request header
  item, mode, profile,      \* arguments of generate_and_print_barcode
  data, text,      \* arguments of generate_and_print_label
  img,             \* the label create_label_image returned
  exc,             \* the exception that left the label call, "" if none
  fault,           \* the printer failure met in this call, "" if none
  warned,          \* a warning was logged while resolving the identifier
  composeCalls, convertCalls, transmitCalls,   \* per call
  result,          \* what the label call returned: "" or "image/png"
  http,            \* the response of the last HTTP request handled
  fit,             \* a call of generate_barcode_to_fit made on its own
  fn,              \* a call of a layout function made on its own
  db,              \* the inventory_item table and the save() in progress
  net              \* the print requests in progress and the printer's socket

callVars == <<printEnabled, pc, entry, hx, item, mode, profile, data, text, img, exc,
              fault, warned, composeCalls, convertCalls, transmitCalls, result, http>>

vars == <<callVars, fit, fn, db, net>>

NoImage == LabelRaise("")
NoResponse == [status |-> 0, body |-> ""]
Response(status, body) == [status |-> status, body |-> body]

\* the values of the per-call variables when no call is in progress
CallCleared ==
  /\ entry = "" /\ hx = FALSE
  /\ item = NoItem /\ mode = "" /\ profile = DEFAULT_PROFILE
  /\ data = "" /\ text = NoText /\ img = NoImage
  /\ exc = "" /\ fault = "" /\ warned = FALSE
  /\ composeCalls = 0 /\ convertCalls = 0 /\ transmitCalls = 0
  /\ result = ""

\* no call of generate_barcode_to_fit is in progress
FitIdle ==
  [pc |-> "idle", data |-> "", max_width_px |-> 0, target_height_px |-> 0, dpi |-> 0,
   initial_module_width_mm |-> 0, min_module_width_mm |-> 0,
   module_width |-> 0, img |-> Raise(""), rendered |-> Raise(""), prev_w |-> 0,
   renders |-> 0, passes |-> 0, scales |-> 0]

\* no call of create_label_image is on record
NoFirst ==
  [set |-> FALSE, others |-> FALSE, data |-> "", text |-> NoText,
   profile |-> DEFAULT_PROFILE, fontEnv |-> [path |-> "unset", system |-> FALSE],
   label |-> NoImage]

\* no function has been called.  first is history: the first call of
\* create_label_image made with arguments of FirstCallInputs, its label,
\* and whether a call with other arguments was made after it
FnIdle ==
  [op |-> "", profile |-> DEFAULT_PROFILE, size |-> <<0, 0>>, margin |-> 0,
   data |-> "", text |-> NoText, fontEnv |-> [path |-> "unset", system |-> FALSE],
   label |-> NoImage, first |-> NoFirst,
   subject |-> NoSubject, location |-> NoLocation, warning |-> NoWarning]

Init ==
  /\ printEnabled \in BOOLEAN
  /\ pc = "idle"
  /\ CallCleared
  /\ http = NoResponse
  /\ fit = FitIdle
  /\ fn = FnIdle
  /\ db = DbStart
  /\ net = NetIdle

\* a fresh call: the counters and outcomes of the previous one are gone
StartCall(e, h, it, m, p, d, t, at) ==
  /\ pc' = at
  /\ entry' = e /\ hx' = h
  /\ item' = it /\ mode' = m /\ profile' = p
  /\ data' = d /\ text' = t
  /\ img' = NoImage /\ exc' = "" /\ fault' = "" /\ warned' = FALSE
  /\ composeCalls' = 0 /\ convertCalls' = 0 /\ transmitCalls' = 0
  /\ result' = ""
  /\ http' = NoResponse
  /\ UNCHANGED <<db, net, fit, fn, printEnabled>>

\* the per-call variables are cleared; at is the next position
NoCall(response, at) ==
  /\ pc' = at
  /\ entry' = "" /\ hx' = FALSE
  /\ item' = NoItem /\ mode' = "" /\ profile' = DEFAULT_PROFILE
  /\ data' = "" /\ text' = NoText
  /\ img' = NoImage /\ exc' = "" /\ fault' = "" /\ warned' = FALSE
  /\ composeCalls' = 0 /\ convertCalls' = 0 /\ transmitCalls' = 0
  /\ result' = ""
  /\ http' = response
  /\ UNCHANGED <<db, net, fit, fn, printEnabled>>

\* data strings a caller may pass to generate_and_print_label
D10 == "0123456789"
DataInputs ==
  {"", "INV-739", "UPC-EXAMPLE-000000000001", "INV-#", D10 \o D10 \o D10,
   D10 \o D10 \o D10 \o D10 \o D10}
TextInputs == {NoText, <<"">>, <<"INV-739 | PLA Black">>}

\* profiles passed to generate_and_print_barcode (None is DEFAULT_PROFILE)
BarcodeProfileInputs == {DEFAULT_PROFILE, LabelProfile("29x90", 900, 290, 300, 70, 20)}

(***************************************************************************)
(* Entry points                                                            *)
(***************************************************************************)
\* a direct call generate_and_print_barcode(item, mode, profile), the item
\* taken from the set its
CallBarcodeFrom(its) ==
  /\ pc = "idle"
  /\ \E it \in its, m \in ModeInputs, p \in BarcodeProfileInputs :
       StartCall("barcode", FALSE, it, m, p, "", NoText, "resolving")

\* every item a caller may pass, None among them
AnyItems == Items \cup {NoItem}

CallBarcode == CallBarcodeFrom(AnyItems)

\* the same call on a sample of the items: saved and unsaved rows, with and
\* without an inventory code, with and without a product or a upc
SampleItems ==
  {NoItem} \cup
  { it \in Items : /\ "code" \notin it.attrs /\ "name" \notin it.attrs
                   /\ it.product.name # "" \/ it.product.none
                   /\ it.product.attrs \in {{}, {"name", "upc"}} }

CallBarcodeSample == CallBarcodeFrom(SampleItems)

\* a direct call generate_and_print_label(data, text, profile)
CallLabel ==
  /\ pc = "idle"
  /\ \E d \in DataInputs, t \in TextInputs, p \in ProfileInputs :
       StartCall("label", FALSE, NoItem, "", p, d, t, "composing")

\* PrintBarcodeView.get: 404 if there is no such item
PrintBarcodeGet ==
  /\ pc = "idle"
  /\ \/ \E it \in StoredItems, m \in ModeInputs :
          StartCall("get", FALSE, it, m, DEFAULT_PROFILE, "", NoText, "resolving")
     \/ NoCall(Response(404, ""), "responded")

\* PrintBarcodeView.post
PrintBarcodePost ==
  /\ pc = "idle"
  /\ \/ \E it \in StoredItems, m \in ModeInputs, h \in BOOLEAN :
          StartCall("post", h, it, m, DEFAULT_PROFILE, "", NoText, "resolving")
     \/ NoCall(Response(404, ""), "responded")

\* addInventoryView.post up to its first label call.  The new item is made
\* with InventoryItem.objects.create, i.e. save() on a record without a
\* primary key; an exception of save() is not caught by the view.
AddInventoryPost ==
  /\ pc = "idle"
  /\ \E formValid \in BOOLEAN, hasUpcOrSku \in BOOLEAN, productFound \in BOOLEAN,
        it \in StoredItems :
       IF ~formValid
       THEN NoCall(Response(200, "form"), "responded")
       ELSE IF ~hasUpcOrSku \/ ~productFound
       THEN NoCall(Response(302, IF hasUpcOrSku THEN "warning" ELSE "error"), "responded")
       ELSE IF save_outcome(TRUE) # "saved"
       THEN NoCall(Response(500, save_outcome(TRUE)), "responded")
       ELSE StartCall("add", FALSE, it, "unique", DEFAULT_PROFILE, "", NoText,
                      "resolving")

(***************************************************************************)
(* Steps of a label call                                                   *)
(***************************************************************************)
\* generate_and_print_barcode, lines 533-588: resolve data and caption
Resolve ==
  /\ pc = "resolving"
  /\ \E r \in {ResolveBarcode(item, mode)} :
        IF r.ok
        THEN /\ data' = r.data /\ text' = r.text /\ warned' = r.warned
             /\ pc' = "composing"
             /\ UNCHANGED exc
        ELSE /\ exc' = r.err
             /\ pc' = "raised"
             /\ UNCHANGED <<data, text, warned>>
  /\ UNCHANGED <<db, net, fit, fn, printEnabled, entry, hx, item, mode, profile, img, fault,
                 composeCalls, convertCalls, transmitCalls, result, http>>

\* generate_and_print_label, line 415: create_label_image
Compose ==
  /\ pc = "composing"
  /\ composeCalls' = composeCalls + 1
  /\ \E fontEnv \in FontEnvs :
       \E label \in {create_label_image(data, text, profile, fontEnv)} :
          IF label.ok
          THEN /\ img' = label
               /\ pc' = "composed"
               /\ UNCHANGED exc
          ELSE /\ exc' = label.err
               /\ pc' = "raised"
               /\ UNCHANGED img
  /\ UNCHANGED <<db, net, fit, fn, printEnabled, entry, hx, item, mode, profile, data, text, fault,
                 warned, convertCalls, transmitCalls, result, http>>

\* a gate that forgets the flag
gate_ignoring_flag(enabled) == "converting"

\* where generate_and_print_label goes after composing (line 416)
generate_and_print_label_gate(enabled) ==
  IF enabled THEN "converting" ELSE "responding"

\* generate_and_print_label, lines 416-420: the print-enable flag
Gate ==
  /\ pc = "composed"
  /\ pc' = generate_and_print_label_gate(printEnabled)
  /\ UNCHANGED <<db, net, fit, fn, printEnabled, entry, hx, item, mode, profile, data, text, img, exc,
                 fault, warned, composeCalls, convertCalls, transmitCalls, result,
                 http>>

\* a print step that is tried again when it fails
print_failure_retry == "transmitting"

\* where the call goes when convert() or backend.write() raises: nothing in
\* print_label_image or generate_and_print_label catches the exception
print_failure_target == "raised"

\* print_label_image, lines 375-390: convert()
Convert ==
  /\ pc = "converting"
  /\ convertCalls' = convertCalls + 1
  /\ IF ConvertAccepts(img, DefaultLabelCode)
     THEN /\ pc' = "transmitting"
          /\ UNCHANGED <<fault, exc>>
     ELSE /\ fault' = "PrintFormatError"
          /\ pc' = print_failure_target
          /\ exc' = IF print_failure_target = "raised" THEN "PrintFormatError" ELSE exc
  /\ UNCHANGED <<db, net, fit, fn, printEnabled, entry, hx, item, mode, profile, data, text, img,
                 warned, composeCalls, transmitCalls, result, http>>

\* print_label_image, lines 392-399: backend.write()
Transmit ==
  /\ pc = "transmitting"
  /\ transmitCalls' = transmitCalls + 1
  /\ \E outcome \in TransmitOutcomes :
       IF outcome = "ok"
       THEN /\ pc' = "responding"
            /\ UNCHANGED <<fault, exc>>
       ELSE /\ fault' = outcome
            /\ pc' = print_failure_target
            /\ exc' = IF print_failure_target = "raised" THEN outcome ELSE exc
  /\ UNCHANGED <<db, net, fit, fn, printEnabled, entry, hx, item, mode, profile, data, text, img,
                 warned, composeCalls, convertCalls, result, http>>

\* generate_and_print_label, lines 422-424: the PNG response
Respond ==
  /\ pc = "responding"
  /\ result' = "image/png"
  /\ pc' = "returned"
  /\ UNCHANGED <<db, net, fit, fn, printEnabled, entry, hx, item, mode, profile, data, text, img, exc,
                 fault, warned, composeCalls, convertCalls, transmitCalls, http>>

Terminal == pc \in {"returned", "raised"}

\* a direct call is over: control is back with the caller
Return ==
  /\ Terminal
  /\ entry \in {"barcode", "label"}
  /\ NoCall(NoResponse, "idle")

\* the response of PrintBarcodeView.get / .post once the label call is over
PrintBarcodeResponse(e, h, raised, error) ==
  IF raised THEN Response(500, error)
  ELSE IF e = "get" THEN Response(200, "image/png")
  ELSE IF h THEN Response(200, "print-result")
  ELSE Response(302, "inventory_edit")

\* The view takes over when its label call is over: PrintBarcodeView.get,
\* lines 38-46, PrintBarcodeView.post, lines 50-67, and
\* addInventoryView.post, lines 271-288 (the second label, then the redirect).
ViewReturn ==
  /\ Terminal
  /\ entry \in {"get", "post", "add"}
  /\ IF entry = "add" /\ pc = "returned" /\ mode = "unique"
     THEN StartCall("add", FALSE, item, "upc", DEFAULT_PROFILE, "", NoText, "resolving")
     ELSE /\ http' = IF entry = "add"
                     THEN Response(302, IF pc = "raised" THEN "warning" ELSE "success")
                     ELSE PrintBarcodeResponse(entry, hx, pc = "raised", exc)
          /\ pc' = "responded"
          /\ UNCHANGED <<db, net, fit, fn, printEnabled, entry, hx, item, mode, profile, data, text,
                         img, exc, fault, warned, composeCalls, convertCalls,
                         transmitCalls, result>>

\* the response has been sent: the request is over
Done ==
  /\ pc = "responded"
  /\ NoCall(NoResponse, "idle")

Step == Resolve \/ Compose \/ Gate \/ Convert \/ Transmit \/ Respond

Next ==
  \/ CallBarcode
  \/ CallLabel
  \/ PrintBarcodeGet
  \/ PrintBarcodePost
  \/ AddInventoryPost
  \/ Resolve
  \/ Compose
  \/ Gate
  \/ Convert
  \/ Transmit
  \/ Respond
  \/ Return
  \/ ViewReturn
  \/ Done

Spec == Init /\ [][Next]_vars

\* The same program with the direct barcode calls made on the sample items,
\* and with a call in progress running to its end: the code is sequential
\* and every step returns or raises.
FairNext ==
  \/ CallBarcodeSample
  \/ CallLabel
  \/ PrintBarcodeGet
  \/ PrintBarcodePost
  \/ AddInventoryPost
  \/ Resolve
  \/ Compose
  \/ Gate
  \/ Convert
  \/ Transmit
  \/ Respond
  \/ Return
  \/ ViewReturn
  \/ Done

FairSpec == Init /\ [][FairNext]_vars /\ WF_vars(Step)

(***************************************************************************)
(* The functions of the module called on their own: generate_barcode_to_fit *)
(* step by step, and canvas_size_px, side_margin_px, _profile_from_mm and  *)
(* create_label_image on the inputs below.                                 *)
(***************************************************************************)
FitDataInputs == {"", "7", "INV-739", "INV-#", D10 \o D10 \o D10}
MaxWidthInputs == {-1, 0, 1, 150, 300, 520, 1016}
TargetHeightInputs == {-1, 0, 1, 24, 115}
DpiInputs == {300, 600}

\* <<initial_module_width_mm, min_module_width_mm>> in 1/10000 mm
ModuleWidthInputs ==
  { <<InitialModuleWidth, MinModuleWidth>>, <<3000, 3000>>, <<3000, 2700>>,
    <<3000, 2500>>, <<2000, 1000>> }

\* generate_barcode_to_fit, lines 184-201: the call and its check of the
\* two sizes
FitCall ==
  /\ pc = "idle"
  /\ fit.pc = "idle"
  /\ fn.op = ""
  /\ \E d \in FitDataInputs, mw \in MaxWidthInputs, th \in TargetHeightInputs,
        dpi \in DpiInputs, widths \in ModuleWidthInputs :
       fit' = [FitIdle EXCEPT
                 !.data = d, !.max_width_px = mw, !.target_height_px = th, !.dpi = dpi,
                 !.initial_module_width_mm = widths[1],
                 !.min_module_width_mm = widths[2],
                 !.module_width = widths[1],
                 !.img = IF invalid_sizes(mw, th) THEN Raise("InvalidDimensions")
                         ELSE Raise(""),
                 !.pc = IF invalid_sizes(mw, th) THEN "raised" ELSE "rendering"]
  /\ UNCHANGED <<callVars, fn, db, net>>

\* lines 202-207: the first rendering
FitRender ==
  /\ fit.pc = "rendering"
  /\ \E rendered \in {_render_code128(fit.data, fit.module_width,
                                       fit.target_height_px, fit.dpi)} :
       fit' = [fit EXCEPT !.img = rendered, !.prev_w = rendered.w,
                          !.renders = fit.renders + 1,
                          !.pc = IF rendered.ok THEN "looping" ELSE "raised"]
  /\ UNCHANGED <<callVars, fn, db, net>>

\* a loop that goes on until the barcode fits
FitLoopUntilFit == fit.img.w > fit.max_width_px

\* a loop that makes one pass at most
FitLoopOnce ==
  /\ fit.img.w > fit.max_width_px
  /\ fit.passes = 0

\* the condition of the while loop, line 210
FitLoopCondition ==
  /\ fit.img.w > fit.max_width_px
  /\ fit.module_width > fit.min_module_width_mm

\* lines 210-217: one pass of the loop body
FitShrink ==
  /\ fit.pc = "looping"
  /\ FitLoopCondition
  /\ \E narrower \in {shrink_module_width(fit.module_width)} :
       fit' = [fit EXCEPT
                 !.module_width = narrower,
                 !.img = _render_code128(fit.data, narrower, fit.target_height_px,
                                         fit.dpi),
                 !.prev_w = fit.img.w,
                 !.renders = fit.renders + 1,
                 !.passes = fit.passes + 1]
  /\ UNCHANGED <<callVars, fn, db, net>>

\* lines 219-226: the loop is over; the height-only downscale and the return
FitScale ==
  /\ fit.pc = "looping"
  /\ ~FitLoopCondition
  /\ fit' = [fit EXCEPT !.rendered = fit.img,
                        !.img = FitHeight(fit.img, fit.target_height_px),
                        !.scales = IF fit.img.h > fit.target_height_px THEN 1 ELSE 0,
                        !.pc = "returned"]
  /\ UNCHANGED <<callVars, fn, db, net>>

FitOver == fit.pc \in {"returned", "raised"}

\* control is back with the caller
FitDone ==
  /\ FitOver
  /\ fit' = FitIdle
  /\ UNCHANGED <<callVars, fn, db, net>>

FitStep == FitRender \/ FitShrink \/ FitScale

\* label sizes in tenths of a millimetre, resolutions and codes for profiles
\* built with LabelProfile(...)
MmInputs == {10, 127, 165, 170, 175, 290, 540, 900}
GeometryDpiInputs == {25, 300, 600}
CodeInputs == {"17x54", "29x90", "62"}
MarginInputs == {0, 15, 20}

\* the dpi argument of _profile_from_mm: 0 stands for None
OptionalDpiInputs == {0, 25, 300, 600}

GeometryProfiles ==
  { LabelProfile(c, w, h, dpi, 70, m) :
      c \in CodeInputs, w \in {10, 127, 540, 900}, h \in {10, 170, 290},
      dpi \in GeometryDpiInputs, m \in MarginInputs }

\* the function called has returned; the history stays
FnCleared == [FnIdle EXCEPT !.first = fn.first]

\* profile.canvas_size_px and profile.side_margin_px of a profile
ApplyCanvasSize ==
  /\ pc = "idle"
  /\ fit.pc = "idle"
  /\ fn.op = ""
  /\ \E p \in GeometryProfiles :
       fn' = [FnCleared EXCEPT !.op = "canvas_size_px", !.profile = p,
                            !.size = canvas_size_px(p), !.margin = side_margin_px(p)]
  /\ UNCHANGED <<callVars, fit, db, net>>

\* _profile_from_mm((width_mm, height_mm), dpi) and the canvas of its profile
ApplyProfileFromMm ==
  /\ pc = "idle"
  /\ fit.pc = "idle"
  /\ fn.op = ""
  /\ \E w \in MmInputs, h \in MmInputs, dpi \in OptionalDpiInputs :
       \E p \in {_profile_from_mm(<<w, h>>, dpi, 70, 20)} :
          fn' = [FnCleared EXCEPT !.op = "_profile_from_mm", !.profile = p,
                               !.size = canvas_size_px(p),
                               !.margin = side_margin_px(p)]
  /\ UNCHANGED <<callVars, fit, db, net>>

\* the calls of create_label_image that are put on record
FirstCallInputs ==
  [data : {"INV-739"}, text : {NoText, <<"INV-739 | PLA Black">>},
   profile : BarcodeProfileInputs,
   fontEnv : {[path |-> "ok", system |-> TRUE], [path |-> "bad", system |-> FALSE]}]

\* the history after a call with the arguments args that gave label
RecordCall(args, label) ==
  IF ~fn.first.set
  THEN IF args \in FirstCallInputs
       THEN [set |-> TRUE, others |-> FALSE, data |-> args.data, text |-> args.text,
             profile |-> args.profile, fontEnv |-> args.fontEnv, label |-> label]
       ELSE fn.first
  ELSE IF args = [data |-> fn.first.data, text |-> fn.first.text,
                  profile |-> fn.first.profile, fontEnv |-> fn.first.fontEnv]
  THEN fn.first
  ELSE [fn.first EXCEPT !.others = TRUE]

\* a composer that draws on a canvas other labels were drawn on
compose_on_used_canvas(d, t, p, fontEnv) ==
  IF fn.first.others
  THEN [create_label_image(d, t, p, fontEnv) EXCEPT !.x0 = 0]
  ELSE create_label_image(d, t, p, fontEnv)

\* the call create_label_image(data, text, profile) in the environment
\* fontEnv: every call starts from a canvas of its own (line 252)
compose(d, t, p, fontEnv) == create_label_image(d, t, p, fontEnv)

\* create_label_image(data, text, profile); a caption equal to the data is
\* among the captions
ApplyCreateLabel ==
  /\ pc = "idle"
  /\ fit.pc = "idle"
  /\ fn.op = ""
  /\ \E d \in DataInputs, p \in ProfileInputs, fontEnv \in FontEnvs :
       \E t \in TextInputs \cup {<<d>>} :
          \E label \in {compose(d, t, p, fontEnv)} :
             fn' = [FnCleared EXCEPT
                      !.op = "create_label_image", !.profile = p,
                      !.size = canvas_size_px(p),
                      !.margin = side_margin_px(p),
                      !.data = d, !.text = t, !.fontEnv = fontEnv,
                      !.label = label,
                      !.first = RecordCall([data |-> d, text |-> t, profile |-> p,
                                            fontEnv |-> fontEnv], label)]
  /\ UNCHANGED <<callVars, fit, db, net>>

\* InventoryItem.filament_drying_warning(new_location) on an item
ApplyFilamentWarning ==
  /\ pc = "idle"
  /\ fit.pc = "idle"
  /\ fn.op = ""
  /\ \E self \in WarningSubjects, new_location \in Locations :
       fn' = [FnCleared EXCEPT
                !.op = "filament_drying_warning",
                !.subject = self, !.location = new_location,
                !.warning = filament_drying_warning(self, new_location)]
  /\ UNCHANGED <<callVars, fit, db, net>>

\* the function has returned
FnDone ==
  /\ fn.op # ""
  /\ fn' = FnCleared
  /\ UNCHANGED <<callVars, fit, db, net>>

PureInit ==
  /\ printEnabled = FALSE
  /\ pc = "idle"
  /\ CallCleared
  /\ http = NoResponse
  /\ fit = FitIdle
  /\ fn = FnIdle
  /\ db = DbStart
  /\ net = NetIdle

PureNext ==
  \/ FitCall
  \/ FitRender
  \/ FitShrink
  \/ FitScale
  \/ FitDone
  \/ ApplyCanvasSize
  \/ ApplyProfileFromMm
  \/ ApplyCreateLabel
  \/ ApplyFilamentWarning
  \/ FnDone

\* generate_barcode_to_fit is sequential: a call in progress takes its next
\* step
PureSpec == PureInit /\ [][PureNext]_vars /\ WF_vars(FitStep)

(***************************************************************************)
(* InventoryItem.save step by step, its callers, and the admin action      *)
(***************************************************************************)
otherVars == <<callVars, fit, fn>>

\* a call of save() on the instance self, moved to the location target
SaveCall(self, target) ==
  [DbIdle EXCEPT !.pc = "save", !.self = self, !.target = target]

\* views.py 262-266: InventoryItem.objects.create(product=..., shipment=...,
\* location=...), which is InventoryItem(...).save()
DbCreate ==
  /\ db.call.pc = "idle"
  /\ \E location \in OptionalLocations :
       db' = [db EXCEPT !.call = SaveCall(NewInstance(location), location)]
  /\ UNCHANGED <<otherVars, net>>

\* inventoryEditView.post: the form sets location, status and date_depleted
\* of a stored item and saves it
DbEdit ==
  /\ db.call.pc = "idle"
  /\ \E id \in ItemIds, location \in OptionalLocations, status \in StatusValues,
        date_depleted \in BOOLEAN :
       /\ db.rows[id].pk = id
       /\ db' = [db EXCEPT !.call =
                    SaveCall([db.rows[id] EXCEPT !.location = location,
                                                 !.status = status,
                                                 !.date_depleted = date_depleted],
                             location)]
  /\ UNCHANGED <<otherVars, net>>

\* admin action "Mark selected items as Depleted":
\* queryset.update(status=InventoryItem.Status.DEPLETED)
AdminMarkDepleted ==
  /\ db.call.pc = "idle"
  /\ \E queryset \in SUBSET ItemIds :
       /\ queryset # {}
       /\ \A id \in queryset : db.rows[id].pk = id
       /\ db' = [db EXCEPT !.rows =
                    [id \in ItemIds |->
                       IF id \in queryset
                       THEN [db.rows[id] EXCEPT !.status = Status.DEPLETED]
                       ELSE db.rows[id]]]
  /\ UNCHANGED <<otherVars, net>>

\* save, lines 623-631: is_new, previous, and the test of previous.location
\* (previous is None for a new record)
SaveEnter ==
  /\ db.call.pc = "save"
  /\ LET is_new == db.call.self.pk = NoPk
          previous == IF is_new THEN NoRow ELSE db.rows[db.call.self.pk]
     IN  db' = [db EXCEPT !.call =
                  [db.call EXCEPT
                     !.is_new = IF db.call.depth = 0 THEN is_new ELSE @,
                     !.previous = previous,
                     !.pc = IF is_new THEN "raised"
                            ELSE IF previous.location # db.call.self.location
                            THEN "update_status" ELSE "flags",
                     !.exc = IF is_new THEN "AttributeError" ELSE ""]]
  /\ UNCHANGED <<otherVars, net>>

\* update_status, lines 540-548: with a valid default_status it sets the
\* status and calls self.save(update_fields=["status"])
SaveUpdateStatus ==
  /\ db.call.pc = "update_status"
  /\ db' = [db EXCEPT !.call =
              IF update_status_applies(db.call.self)
              THEN IF db.call.depth + 1 >= RecursionLimit
                   THEN [db.call EXCEPT
                           !.self.status = db.call.self.location.default_status,
                           !.pc = "raised", !.exc = "RecursionError"]
                   ELSE [db.call EXCEPT
                           !.self.status = db.call.self.location.default_status,
                           !.depth = @ + 1, !.update_fields = "status",
                           !.pc = "save"]
              ELSE [db.call EXCEPT !.pc = "flags"]]
  /\ UNCHANGED <<otherVars, net>>

\* save, lines 633-648: the flags, then super().save(); a nested call
\* writes the status alone and returns into its caller
SaveWrite ==
  /\ db.call.pc = "flags"
  /\ LET self == save_flags(db.call.self)
          pk == IF self.pk = NoPk
                THEN CHOOSE id \in ItemIds : db.rows[id].pk = NoPk
                ELSE self.pk
          row == IF db.call.update_fields = "status"
                 THEN [db.rows[pk] EXCEPT !.status = self.status]
                 ELSE [self EXCEPT !.pk = pk]
     IN  db' = [rows |-> [db.rows EXCEPT ![pk] = row],
                call |-> IF db.call.depth > 0
                         THEN [db.call EXCEPT
                                 !.self = self, !.depth = @ - 1, !.pc = "flags",
                                 !.update_fields =
                                    IF db.call.depth = 1 THEN "all" ELSE "status"]
                         ELSE [db.call EXCEPT !.self = [self EXCEPT !.pk = pk],
                                              !.pc = "saved"]]
  /\ UNCHANGED <<otherVars, net>>

\* the caller of save() goes on, or handles the exception
SaveReturn ==
  /\ db.call.pc \in {"saved", "raised"}
  /\ db' = [db EXCEPT !.call = DbIdle]
  /\ UNCHANGED <<otherVars, net>>

DbInit ==
  /\ printEnabled = FALSE
  /\ pc = "idle"
  /\ CallCleared
  /\ http = NoResponse
  /\ fit = FitIdle
  /\ fn = FnIdle
  /\ \E first \in StoredRows : db = Table(first)
  /\ net = NetIdle

DbNext ==
  \/ DbCreate
  \/ DbEdit
  \/ AdminMarkDepleted
  \/ SaveEnter
  \/ SaveUpdateStatus
  \/ SaveWrite
  \/ SaveReturn

DbSpec == DbInit /\ [][DbNext]_vars

(***************************************************************************)
(* print_label_image in two request handlers at once.  Each call makes its *)
(* own backend, a TCP connection of its own to BROTHER_QL_HOST, and        *)
(* backend.write sends the instructions piece by piece.                    *)
(***************************************************************************)
\* a request reaches print_label_image with its label
NetRequest ==
  \E w \in Workers :
     /\ net.req[w].pc = "idle"
     /\ net' = [net EXCEPT !.req[w].pc = "converting"]
     /\ UNCHANGED <<otherVars, db>>

\* lines 375-390: convert()
NetConvert ==
  \E w \in Workers :
     /\ net.req[w].pc = "converting"
     /\ net' = [net EXCEPT !.req[w].pc = "converted"]
     /\ UNCHANGED <<otherVars, db>>

\* line 392: backend = _get_backend()
NetConnect ==
  \E w \in Workers :
     /\ net.req[w].pc = "converted"
     /\ net' = [net EXCEPT !.req[w].pc = "writing", !.req[w].sent = 0]
     /\ UNCHANGED <<otherVars, db>>

\* line 393: backend.write(instructions), one piece
NetSend ==
  \E w \in Workers :
     /\ net.req[w].pc = "writing"
     /\ net.req[w].sent < Len(Instructions)
     /\ net' = [net EXCEPT !.req[w].sent = @ + 1,
                           !.wire = Append(@, <<w, Instructions[net.req[w].sent + 1]>>)]
     /\ UNCHANGED <<otherVars, db>>

\* backend.write has sent everything and returns
NetWritten ==
  \E w \in Workers :
     /\ net.req[w].pc = "writing"
     /\ net.req[w].sent = Len(Instructions)
     /\ net' = [net EXCEPT !.req[w].pc = "done"]
     /\ UNCHANGED <<otherVars, db>>

\* the pieces of a sequence that are not of the request w
RECURSIVE WithoutJob(_, _)
WithoutJob(wire, w) ==
  IF wire = <<>> THEN <<>>
  ELSE IF Head(wire)[1] = w THEN WithoutJob(Tail(wire), w)
  ELSE <<Head(wire)>> \o WithoutJob(Tail(wire), w)

\* lines 394-399: print_label_image returns; the printer has taken the
\* pieces of this request
NetReturn ==
  \E w \in Workers :
     /\ net.req[w].pc = "done"
     /\ net' = [net EXCEPT !.req[w].pc = "idle", !.req[w].sent = 0,
                           !.wire = WithoutJob(@, w)]
     /\ UNCHANGED <<otherVars, db>>

ConcInit ==
  /\ printEnabled = TRUE
  /\ pc = "idle"
  /\ CallCleared
  /\ http = NoResponse
  /\ fit = FitIdle
  /\ fn = FnIdle
  /\ db = DbStart
  /\ net = NetIdle

ConcNext ==
  \/ NetRequest
  \/ NetConvert
  \/ NetConnect
  \/ NetSend
  \/ NetWritten
  \/ NetReturn

ConcSpec == ConcInit /\ [][ConcNext]_vars

(***************************************************************************)
(* Properties                                                              *)
(***************************************************************************)
\* the call in progress (or just over) is a generate_and_print_barcode call
BarcodeCall == entry \in {"barcode", "get", "post", "add"}

\* ... and its identifier has been resolved, or resolving has failed
Resolved == BarcodeCall /\ pc \notin {"idle", "resolving"}

MissingUpcErrors == {"NoProductOrUpc", "NoUpcAvailable"}

\* C1: with printing enabled, a call whose convert or transmit step failed
\* still ends by returning the label image and does not raise.
C1_PrintFailureStillReturnsImage ==
  (printEnabled /\ fault # "" /\ pc # "responded")
    => (pc \in {"responding", "returned"} /\ exc = "")

\* C2: with the print-enable flag off no call reaches the convert or the
\* transmit step, and a call that composed its label returns it normally.
C2_DisabledNeverPrints ==
  ~printEnabled =>
    /\ convertCalls = 0 /\ transmitCalls = 0 /\ fault = ""
    /\ pc \notin {"converting", "transmitting"}
    /\ img.ok => pc # "raised" /\ exc = ""
    /\ (img.ok /\ pc = "returned") => result = "image/png"

C2_Witness ==
  ~printEnabled /\ pc = "returned" /\ img.ok /\ result = "image/png" /\ composeCalls = 1

\* the order of the positions of a call
CallOrder ==
  { <<"idle", "resolving">>, <<"idle", "composing">>, <<"idle", "responded">>,
    <<"resolving", "composing">>, <<"resolving", "raised">>,
    <<"composing", "composed">>, <<"composing", "raised">>,
    <<"composed", "converting">>, <<"composed", "responding">>,
    <<"converting", "transmitting">>, <<"converting", "raised">>,
    <<"transmitting", "responding">>, <<"transmitting", "raised">>,
    <<"responding", "returned">>,
    <<"returned", "idle">>, <<"raised", "idle">>,
    <<"returned", "responded">>, <<"raised", "responded">>,
    <<"returned", "resolving">>, <<"responded", "idle">> }

InCall == pc \in {"resolving", "composing", "composed", "converting", "transmitting",
                  "responding"}

\* C3: a call goes resolve -> compose -> (convert, transmit, only with
\* printing enabled) -> done; the printer is never addressed before the label
\* is composed, at most once per call, and every call reaches its end.
C3_StepOrder ==
  /\ [][pc' # pc => <<pc, pc'>> \in CallOrder]_vars
  /\ [](/\ composeCalls <= 1 /\ convertCalls <= 1 /\ transmitCalls <= 1
        /\ (pc \in {"converting", "transmitting"} \/ convertCalls > 0)
             => (printEnabled /\ img.ok /\ composeCalls = 1)
        /\ transmitCalls > 0 => convertCalls = 1)
  /\ [](InCall => <>Terminal)

C3_Witness ==
  pc = "returned" /\ entry = "barcode" /\ composeCalls = 1 /\ transmitCalls = 1

\* C4 as stated: every mode other than "upc" and "unique" fails with the
\* unknown-mode error and nothing is composed or transmitted.
C4_OnlyExactModes ==
  (Resolved /\ ~item.none /\ mode \notin {"upc", "unique"})
    => (exc = "UnknownMode" /\ composeCalls = 0 /\ transmitCalls = 0)

\* C4: every mode whose lower-case form is none of "upc", "unique", "inv",
\* "inventory" fails with the unknown-mode error (an item being given), and
\* nothing is composed or transmitted in that call.
C4_UnknownMode ==
  (Resolved /\ ~item.none
     /\ Lower(mode) \notin {"upc", "unique", "inv", "inventory"})
    => /\ exc = "UnknownMode"
       /\ composeCalls = 0 /\ convertCalls = 0 /\ transmitCalls = 0
       /\ ~img.ok /\ result = ""

C4_Witness ==
  entry = "barcode" /\ pc = "raised" /\ mode = "qr" /\ ~item.none /\ exc = "UnknownMode"

\* the product of the item exposes no upc value
NoUpcValue(it) ==
  \/ "product" \notin it.attrs
  \/ it.product.none
  \/ "upc" \notin it.product.attrs
  \/ it.product.upc = ""

\* the caption of a upc label
UpcCaption(it, upc) == <<_get_item_display_name(it) \o " | " \o upc>>

\* C5 as stated: in mode "upc" a product without a upc value makes the call
\* fail with the missing-UPC error before anything is composed; otherwise the
\* payload is the upc and the caption "<display name> | <upc>".
C5_UpcOnly ==
  (Resolved /\ ~item.none /\ mode = "upc")
    => IF NoUpcValue(item)
       THEN exc \in MissingUpcErrors /\ composeCalls = 0 /\ transmitCalls = 0
       ELSE data = item.product.upc /\ text = UpcCaption(item, item.product.upc)

\* the first non-empty of the product's upc, gtin and barcode attributes
UpcOrEquivalent(p) ==
  IF "upc" \in p.attrs /\ p.upc # "" THEN p.upc
  ELSE IF "gtin" \in p.attrs /\ p.gtin # "" THEN p.gtin
  ELSE IF "barcode" \in p.attrs /\ p.barcode # "" THEN p.barcode
  ELSE ""

\* C5: in mode "upc", if the product is missing, has no upc attribute, or
\* has no non-empty upc, gtin or barcode value, the call fails with the
\* missing-UPC error before anything is composed or transmitted; otherwise the
\* payload is the first non-empty of upc, gtin, barcode and the caption is
\* "<display name> | <payload>".
C5_UpcMode ==
  (Resolved /\ ~item.none /\ mode = "upc")
    => IF \/ "product" \notin item.attrs
          \/ item.product.none
          \/ "upc" \notin item.product.attrs
          \/ UpcOrEquivalent(item.product) = ""
       THEN /\ exc \in MissingUpcErrors
            /\ composeCalls = 0 /\ convertCalls = 0 /\ transmitCalls = 0
       ELSE /\ data = UpcOrEquivalent(item.product)
            /\ text = UpcCaption(item, UpcOrEquivalent(item.product))
            /\ exc \notin MissingUpcErrors

C5_Witness ==
  /\ entry = "barcode" /\ mode = "upc" /\ pc = "returned"
  /\ item.product.upc = "" /\ data = "4006" /\ text = <<"PLA | 4006">>

\* the identifier the unique mode is to use
UniqueIdentifier(it) ==
  IF "inventory_code" \in it.attrs /\ it.inventory_code # "" THEN it.inventory_code
  ELSE IF "code" \in it.attrs /\ it.code # "" THEN it.code
  ELSE IF "id" \in it.attrs /\ it.id # IdNone THEN InvCode(it.id)
  ELSE "INV-UNKNOWN"

\* C6: in mode "unique" the call never fails for lack of an identifier:
\* payload and caption are the item's explicit code, else "INV-<id>", else
\* "INV-UNKNOWN" with a warning logged.
C6_UniqueNeverFails ==
  (Resolved /\ ~item.none /\ mode = "unique")
    => /\ exc # "ItemHasNoId"
       /\ data = UniqueIdentifier(item)
       /\ text = <<UniqueIdentifier(item)>>
       /\ (data = "INV-UNKNOWN") => warned

\* errors that say the same thing count as the same outcome
ErrClass(e) == IF e \in MissingUpcErrors THEN "MissingUpc" ELSE e

\* C7: the outcome of resolving with mode m (the error raised, or the payload
\* and the caption) is the outcome of resolving with m in lower case.
C7_ModeCaseInsensitive ==
  (BarcodeCall /\ (pc = "composing" \/ (pc = "raised" /\ composeCalls = 0)))
    => LET lower == ResolveBarcode(item, Lower(mode))
       IN /\ lower.ok <=> pc = "composing"
          /\ lower.ok => (data = lower.data /\ text = lower.text)
          /\ ~lower.ok => ErrClass(exc) = ErrClass(lower.err)

\* C8: a request that met a printer failure is answered with success.
C8_PrinterFailureIsHttpSuccess ==
  (pc = "responded" /\ fault # "") => http.status < 400

\* C9: a label that create_label_image returns has exactly the size
\* profile.canvas_size_px, also when the fitted barcode is wider than the
\* canvas.
C9_CanvasSize ==
  img.ok => /\ img.w = canvas_size_px(profile)[1]
            /\ img.h = canvas_size_px(profile)[2]

C9_Witness ==
  img.ok /\ img.barcode_w > img.w /\ img.barcode_x < 0 /\ pc = "composed"

\* C10 as stated: create_label_image fails only on invalid barcode data.
C10_FailsOnlyOnBadData ==
  (composeCalls = 1 /\ pc # "composing" /\ data # "" /\ Encodable(data)) => img.ok

\* the profile leaves a barcode area of positive width and height
RoomForBarcode(p) ==
  /\ canvas_size_px(p)[1] - 2 * ((p.side_margin_mm * p.dpi) \div 254) > 0
  /\ (canvas_size_px(p)[2] * p.barcode_area_ratio) \div 100 > 0

\* C10: create_label_image fails only when the barcode data is invalid
\* (empty or not encodable) or the profile leaves no barcode area (width
\* canvas_width - 2*side_margin_px <= 0 or height
\* int(canvas_height*barcode_area_ratio) <= 0); otherwise it returns a label,
\* whatever fonts can be loaded.
C10_ComposeFailures ==
  (composeCalls = 1 /\ pc # "composing")
    => /\ img.ok <=> (data # "" /\ Encodable(data) /\ RoomForBarcode(profile))
       /\ ~img.ok => exc \in {"InvalidInput", "IllegalCharacter", "InvalidDimensions"}

C10_Witness ==
  img.ok /\ img.font = "default" /\ profile # DEFAULT_PROFILE /\ pc = "returned"

\* the ValueErrors of the barcode functions ("invalid input"): the empty
\* data string and the sizes that are not positive
InvalidInputErrors == {"InvalidInput", "InvalidDimensions"}

\* C11: whenever max_width_px <= 0 or target_height_px <= 0,
\* generate_barcode_to_fit raises the invalid-input error, whatever the data
\* is, and nothing has been rendered by then.
C11_InvalidSizes ==
  (fit.pc # "idle" /\ (fit.max_width_px <= 0 \/ fit.target_height_px <= 0))
    => /\ fit.pc = "raised"
       /\ fit.img.err \in InvalidInputErrors
       /\ fit.renders = 0
       /\ generate_barcode_to_fit(fit.data, fit.max_width_px, fit.target_height_px,
                                  fit.dpi).err \in InvalidInputErrors

C11_Witness ==
  /\ fit.pc = "raised" /\ fit.renders = 0
  /\ fit.max_width_px = 0 /\ fit.target_height_px > 0
  /\ fit.data = "INV-739"

\* C12: the empty data string is rejected with the invalid-input error by
\* the renderer, by generate_barcode_to_fit, by create_label_image and by
\* generate_and_print_label, and nothing is converted or transmitted then.
C12_EmptyDataRejected ==
  /\ _render_code128("", InitialModuleWidth, 115, DEFAULT_DPI) = Raise("InvalidInput")
  /\ generate_barcode_to_fit("", 520, 115, DEFAULT_DPI) = Raise("InvalidInput")
  /\ (composeCalls > 0 /\ data = "")
       => /\ pc = "raised"
          /\ exc \in InvalidInputErrors
          /\ ~create_label_image(data, text, profile, [path |-> "ok", system |-> TRUE]).ok
          /\ convertCalls = 0 /\ transmitCalls = 0
          /\ result = ""

C12_Witness ==
  /\ composeCalls = 1 /\ data = "" /\ entry = "label"
  /\ pc = "raised" /\ exc = "InvalidInput"
  /\ printEnabled /\ profile = DEFAULT_PROFILE

\* ceil(log(min / initial) / log(0.9)) for the module widths of
\* ModuleWidthInputs (1/10000 mm)
ShrinkBound(initial, min) ==
  CASE <<initial, min>> = <<3000, 1000>> -> 11
    [] <<initial, min>> = <<3000, 3000>> -> 0
    [] <<initial, min>> = <<3000, 2700>> -> 1
    [] <<initial, min>> = <<3000, 2500>> -> 2
    [] <<initial, min>> = <<2000, 1000>> -> 7

C14_ShrinkOnly ==
  /\ fit.pc = "returned"
       => /\ \/ fit.rendered.w <= fit.max_width_px
             \/ fit.module_width <= fit.min_module_width_mm
          /\ fit.img.ok /\ fit.rendered.ok
          /\ fit.passes > 0 => fit.rendered.w <= fit.prev_w
  /\ (fit.pc = "looping" /\ fit.passes > 0) => fit.img.w <= fit.prev_w

C14_Witness ==
  /\ fit.pc = "returned" /\ fit.img.ok
  /\ fit.rendered.w > fit.max_width_px
  /\ fit.passes > 1 /\ fit.rendered.w < fit.prev_w

GeometryCall == fn.op \in {"canvas_size_px", "_profile_from_mm"}

\* C16: millimetres are converted to pixels by rounding to the nearest
\* integer: the canvas of a label code that is not in the pixel table is
\* (round(width_mm/25.4*dpi), round(height_mm/25.4*dpi)), the side margin is
\* round(side_margin_mm/25.4*dpi): 24 px on the default label, which leaves
\* 518 px for the barcode.
C16_RoundsToNearest ==
  /\ side_margin_px(DEFAULT_PROFILE) = 24
  /\ canvas_size_px(DEFAULT_PROFILE)[1] - 2 * side_margin_px(DEFAULT_PROFILE) = 518
  /\ GeometryCall
       => /\ fn.margin = Round(fn.profile.side_margin_mm * fn.profile.dpi, 254)
          /\ fn.profile.code \notin DOMAIN BROTHER_LABEL_PIXEL_SIZES
               => fn.size = <<Round(fn.profile.width_mm * fn.profile.dpi, 254),
                              Round(fn.profile.height_mm * fn.profile.dpi, 254)>>

\* C17: the canvas of every profile with a positive width, height and dpi
\* is at least 1 x 1 pixel.
C17_CanvasAtLeastOne ==
  (GeometryCall /\ fn.profile.width_mm > 0 /\ fn.profile.height_mm > 0
                /\ fn.profile.dpi > 0)
    => (fn.size[1] >= 1 /\ fn.size[2] >= 1)

\* C18: for a label code of the pixel table the canvas is the table's entry,
\* whatever width_mm, height_mm and dpi the profile has; the default profile
\* gives 566 x 165, and so does a label composed with it.
C18_TablePrecedence ==
  /\ canvas_size_px(DEFAULT_PROFILE) = <<566, 165>>
  /\ (GeometryCall /\ fn.profile.code \in DOMAIN BROTHER_LABEL_PIXEL_SIZES)
       => fn.size = BROTHER_LABEL_PIXEL_SIZES[fn.profile.code]
  /\ (fn.op = "create_label_image" /\ fn.profile = DEFAULT_PROFILE /\ fn.label.ok)
       => (fn.label.w = 566 /\ fn.label.h = 165)

C18_Witness ==
  /\ fn.op = "canvas_size_px" /\ fn.profile.code = "17x54"
  /\ fn.profile.width_mm = 900 /\ fn.profile.height_mm = 290 /\ fn.profile.dpi = 600
  /\ fn.size = <<566, 165>>

\* r is x tenths rounded to a whole number (a tie may go either way)
Nearest(r, x) == 10 * r - x <= 5 /\ x - 10 * r <= 5

\* C19: the code of a profile built from (width_mm, height_mm) is
\* "<round(height_mm)>x<round(width_mm)>", the height first; (54, 17) gives
\* "17x54" and with it the canvas of the default profile.
C19_CodeHeightFirst ==
  /\ _profile_from_mm(<<540, 170>>, 0, 70, 20).code = "17x54"
  /\ canvas_size_px(_profile_from_mm(<<540, 170>>, 0, 70, 20))
       = canvas_size_px(DEFAULT_PROFILE)
  /\ fn.op = "_profile_from_mm"
       => \E hr \in 0..91, wr \in 0..91 :
             /\ Nearest(hr, fn.profile.height_mm)
             /\ Nearest(wr, fn.profile.width_mm)
             /\ fn.profile.code = ToString(hr) \o "x" \o ToString(wr)

C19_Witness ==
  /\ fn.op = "_profile_from_mm"
  /\ fn.profile.width_mm = 900 /\ fn.profile.height_mm = 290
  /\ fn.profile.code = "29x90"

\* C20: with no caption given, create_label_image gives the label it gives
\* with the data as the caption.
C20_DefaultCaption ==
  (fn.op = "create_label_image" /\ fn.text = NoText)
    => fn.label = create_label_image(fn.data, <<fn.data>>, fn.profile, fn.fontEnv)

C20_Witness ==
  /\ fn.op = "create_label_image" /\ fn.text = NoText
  /\ fn.label.ok /\ fn.label.caption = <<fn.data>> /\ fn.data = "INV-739"

C30_DryingWarning ==
  fn.op = "filament_drying_warning"
    => /\ (/\ fn.subject.is_filament /\ fn.subject.status = Status.NEW
           /\ fn.subject.drying_required
           /\ Lower(fn.location.name) = "dry storage")
          => fn.warning = <<"error", FALSE>>
       /\ (/\ fn.subject.is_filament /\ fn.subject.status = Status.NEW
           /\ fn.subject.drying_required
           /\ Lower(fn.location.name) # "dry storage"
           /\ fn.location.is_printer)
          => fn.warning = <<"warning", TRUE>>
       /\ (/\ fn.subject.is_filament /\ fn.subject.status = Status.NEW
           /\ ~fn.subject.drying_required
           /\ fn.location.is_printer)
          => (fn.warning # NoWarning /\ fn.warning[1] = "info")
       /\ (~fn.subject.is_filament \/ fn.subject.status # Status.NEW)
          => fn.warning = NoWarning

\* C22: the transmissions to one printer endpoint are serialized: of two
\* requests in progress at the same time, at most one is inside
\* backend.write.
C22_TransmitSerialized ==
  \A a \in Workers, b \in Workers :
     (a # b) => ~(net.req[a].pc = "writing" /\ net.req[b].pc = "writing")

\* C23: saving a new InventoryItem (no primary key) completes without an
\* error and stores the item, with status NEW when it has no location.
C23_NewItemSaved ==
  (db.call.pc \in {"saved", "raised"} /\ db.call.is_new)
    => /\ db.call.pc = "saved"
       /\ db.call.self.pk \in ItemIds
       /\ db.rows[db.call.self.pk].pk = db.call.self.pk
       /\ (db.call.target = NoLocation
             => db.rows[db.call.self.pk].status = Status.NEW)

\* C24: a save of a stored item whose location was changed to a location
\* with a valid default_status ends with that default_status stored.
C24_MoveStoresDefaultStatus ==
  (/\ db.call.pc \in {"saved", "raised"}
   /\ ~db.call.is_new
   /\ db.call.target # NoLocation
   /\ db.call.previous.location # db.call.target
   /\ db.call.target.default_status \in StatusValues)
    => /\ db.call.pc = "saved"
       /\ db.rows[db.call.self.pk].status = db.call.target.default_status

\* C29: every stored DEPLETED item has depleted set, a depletion date and no
\* location; every stored SOLD item has sold set, a sale date and no
\* location.
C29_FlagsFollowStatus ==
  \A id \in ItemIds :
     db.rows[id].pk = id
       => /\ db.rows[id].status = Status.DEPLETED
               => /\ db.rows[id].depleted
                  /\ db.rows[id].date_depleted
                  /\ db.rows[id].location = NoLocation
          /\ db.rows[id].status = Status.SOLD
               => /\ db.rows[id].sold
                  /\ db.rows[id].date_sold
                  /\ db.rows[id].location = NoLocation

\* C25: the label code handed to convert() is the code of the profile the
\* label was composed for, whatever the profile.
C25_LabelCodeIsProfileCode ==
  (convertCalls > 0) => (DefaultLabelCode = profile.code)

\* C26: create_label_image asks for a barcode of at most
\* canvasWidth - 2*side_margin_px by floor(canvasHeight*barcode_area_ratio)
\* pixels and pastes it at y = 0, x = floor((canvasWidth - barcodeWidth)/2);
\* a fitted barcode within those bounds lies inside the canvas with at least
\* side_margin_px free columns on each side.
C26_BarcodePlacement ==
  (fn.op = "create_label_image")
    => /\ fn.label =
            LayoutLabel(fn.data, fn.text, fn.profile, fn.fontEnv,
                        generate_barcode_to_fit(
                          fn.data, fn.size[1] - 2 * fn.margin,
                          (fn.size[2] * fn.profile.barcode_area_ratio) \div 100,
                          fn.profile.dpi))
       /\ fn.label.ok
            => /\ fn.label.barcode_y = 0
               /\ fn.label.barcode_x = (fn.size[1] - fn.label.barcode_w) \div 2
               /\ (/\ fn.label.barcode_w <= fn.size[1] - 2 * fn.margin
                   /\ fn.label.barcode_h
                        <= (fn.size[2] * fn.profile.barcode_area_ratio) \div 100)
                    => /\ fn.label.x0 = fn.label.barcode_x
                       /\ fn.label.x1 = fn.label.barcode_x + fn.label.barcode_w
                       /\ fn.label.x0 >= fn.margin
                       /\ fn.size[1] - fn.label.x1 >= fn.margin
                       /\ fn.label.barcode_y + fn.label.barcode_h <= fn.size[2]

C26_Witness ==
  /\ fn.op = "create_label_image" /\ fn.label.ok
  /\ fn.margin > 0
  /\ fn.label.barcode_w > 0
  /\ fn.label.barcode_w < fn.size[1] - 2 * fn.margin
  /\ fn.label.x0 > fn.margin
  /\ fn.label.barcode_h < fn.size[2]

\* C27 as claimed: every label composed for a non-empty caption (given, or
\* the data by default) has the caption drawn, centred at
\* x = floor(canvasWidth/2) with its top at barcodeHeight + 2.
C27_CaptionAlwaysDrawn ==
  (/\ fn.op = "create_label_image" /\ fn.label.ok
   /\ default_caption(fn.data, fn.text) # "")
    => /\ fn.label.caption = <<default_caption(fn.data, fn.text)>>
       /\ fn.label.caption_x = fn.size[1] \div 2
       /\ fn.label.caption_y = fn.label.barcode_h + 2

\* C27: a label composed for a non-empty caption has the caption drawn,
\* centred at x = floor(canvasWidth/2) with its top at barcodeHeight + 2,
\* when barcodeHeight + 2 is less than the canvas height; otherwise it has no
\* caption.
C27_CaptionDrawnWhenRoom ==
  (/\ fn.op = "create_label_image" /\ fn.label.ok
   /\ default_caption(fn.data, fn.text) # "")
    => IF fn.label.barcode_h + 2 < fn.size[2]
       THEN /\ fn.label.caption = <<default_caption(fn.data, fn.text)>>
            /\ fn.label.caption_x = fn.size[1] \div 2
            /\ fn.label.caption_y = fn.label.barcode_h + 2
       ELSE fn.label.caption = NoText

C27_Witness ==
  /\ fn.op = "create_label_image" /\ fn.label.ok
  /\ default_caption(fn.data, fn.text) # ""
  /\ fn.label.barcode_h + 2 >= fn.size[2]
  /\ fn.label.caption = NoText

\* C28: min_module_width_mm is a floor: with initial >= min, no rendering of
\* generate_barcode_to_fit is at a module width below min or above initial.
C28_MinIsFloor ==
  (/\ fit.renders > 0
   /\ fit.initial_module_width_mm >= fit.min_module_width_mm)
    => /\ fit.module_width >= fit.min_module_width_mm
       /\ fit.module_width <= fit.initial_module_width_mm

====
